---- MODULE Spec2Model ----
(***************************************************************************)
(* The naming orchestration of @enscribe/core: contract-type detection,    *)
(* subname creation, forward and reverse resolution, and nameContract in   *)
(* its three forms found in the sources:                                   *)
(*   "stepwise"  nameContract over l1/l2 clients calling the step          *)
(*               functions (unnamed/part_002)                              *)
(*   "chainName" nameContract choosing L1Naming or L2Naming by chain name  *)
(*               (src/naming.ts 38-167, L1 steps unnamed/part_003, L2      *)
(*               steps src/L2Naming.ts, detection src/utils.ts)            *)
(*   "inline"    nameContract with the steps written inline                *)
(*               (src/naming.ts 316-647)                                   *)
(* One transition per awaited external call (readContract, writeContract,  *)
(* waitForTransactionReceipt, logMetric); every such call may throw.       *)
(***************************************************************************)
EXTENDS Integers, Sequences, FiniteSets, TLC

\* Calls a process makes one after another (the same request each time).
MaxCalls == 2

Procs == {1, 2}

(***************************************************************************)
(* Strings of the program.                                                 *)
(***************************************************************************)
\* String.prototype.toLowerCase on the hex strings and chain names in use.
ToLowerCase(s) ==
  CASE s = "0xAa" -> "0xaa"
    [] s = "0xBb" -> "0xbb"
    [] s = "0xEe" -> "0xee"
    [] s = "0xDd" -> "0xdd"
    [] s = "Base" -> "base"
    [] OTHER -> s

\* The checksummed spelling viem returns for an address-typed result.
Checksum(a) ==
  CASE a = "0xaa" -> "0xAa"
    [] a = "0xbb" -> "0xBb"
    [] a = "0xee" -> "0xEe"
    [] a = "0xdd" -> "0xDd"
    [] OTHER -> a

ZeroAddress == "0x00"
\* walletClient.account.address, as the wallet provider spells it.
AccountAddress == "0xee"
OtherAccount == "0xdd"

Name1 == "foo.bar.eth"
Name2 == "baz.bar.eth"
\* A name without a parent segment, and a string that is not an address.
DotlessName == "eth"
MalformedAddress == "0xZZ"
Names == {Name1, Name2, DotlessName}

\* normalizedName.split(".")
Split(name) ==
  CASE name = "foo.bar.eth" -> <<"foo", "bar", "eth">>
    [] name = "baz.bar.eth" -> <<"baz", "bar", "eth">>
    [] name = "bar.eth" -> <<"bar", "eth">>
    [] name = "eth" -> <<"eth">>
    [] OTHER -> <<name>>

\* parts.join(".")
Join(parts) ==
  CASE parts = <<"foo", "bar", "eth">> -> "foo.bar.eth"
    [] parts = <<"baz", "bar", "eth">> -> "baz.bar.eth"
    [] parts = <<"bar", "eth">> -> "bar.eth"
    [] parts = <<"eth">> -> "eth"
    [] OTHER -> ""

InvalidName == [label |-> "", parent |-> "", error |-> "InvalidNameFormat"]

parseNormalizedName(normalizedName) ==
  LET parts == Split(normalizedName) IN
  IF Len(parts) < 2 THEN InvalidName
  ELSE [label |-> parts[1], parent |-> Join(Tail(parts)), error |-> ""]

\* isAddress of viem: the well-formed addresses of the model.
isAddress(address) == address \in {"0xAa", "0xaa", "0xBb", "0xbb", "0xEe", "0xee", "0xDd", "0xdd"}

isEmpty(value) == value = ""

isAddressEmpty(address) == isEmpty(address)

isAddressValid(address) ==
  IF isEmpty(address) THEN FALSE
  ELSE IF ~isAddress(address) THEN FALSE
  ELSE TRUE

\* namehash(address.slice(2).toLowerCase() + ".addr.reverse"): the reverse
\* node is identified by the lower-cased address.
ReverseNode(address) == ToLowerCase(address)

\* JavaScript truthiness of a coinType value ("undefined", "NaN" and "0" are falsy).
Truthy(v) == v \notin {"undefined", "NaN", "0"}

\* Number(contracts.COIN_TYPE)
Number(v) == IF v = "undefined" THEN "NaN" ELSE v

L2ChainNames ==
  {"linea-sepolia", "linea", "optimism-sepolia", "optimism", "arbitrum-sepolia",
   "arbitrum", "scroll-sepolia", "scroll", "base-sepolia", "base"}

\* A lookup that does not lower-case the chain name, used to test the
\* properties below.
getNetworkInfoExact(chainName) ==
  IF chainName \in L2ChainNames
  THEN [isL2 |-> TRUE, networkName |-> chainName]
  ELSE [isL2 |-> FALSE, networkName |-> chainName]

getNetworkInfo(chainName) ==
  LET chainLower == ToLowerCase(chainName) IN
  IF chainLower \in L2ChainNames
  THEN [isL2 |-> TRUE, networkName |-> chainLower]
  ELSE [isL2 |-> FALSE, networkName |-> chainLower]

ContractTypes == {"Ownable", "ReverseClaimer", "Unknown"}

\* The request is well formed: a name with a parent and a valid address.
WellFormed(r) ==
  /\ parseNormalizedName(r.name).error = ""
  /\ isAddressValid(r.contractAddress)

VARIABLES
  cfg,           \* the build and the network configuration of the run
  request,       \* request[p]: the call process p makes
  world,         \* chain facts the program only reads
  registry,      \* ENS registry: record of each name, or NoRecord
  addrRecord,    \* resolver: forward records, by name and record key
  reverseName,   \* resolver: reverse records, by network and reverse node
  pc,            \* pc[p]: the awaited call process p is at
  phase,         \* phase[p]: the step of the orchestration it belongs to
  local,         \* local[p]: the local variables of the call
  txs,           \* txs[p]: the writeContract calls of the current call
  transactions,  \* transactions[p]: the transactions map being built
  result,        \* result[p]: what the call returned
  metrics,       \* metrics[p]: the telemetry events posted by the call
  pre,           \* pre[p]: the records the call found when it started
  prev,          \* prev[p]: how the previous call of p ended
  calls,         \* calls[p]: calls started by p
  onchain        \* onchain[p]: the current call has issued a contract read or write

vars == <<cfg, request, world, registry, addrRecord, reverseName, pc, phase,
          local, txs, transactions, result, metrics, pre, prev, calls, onchain>>

chainVars == <<registry, addrRecord, reverseName>>

NoRecord == [owner |-> ZeroAddress, resolver |-> ZeroAddress]
NoResult == [kind |-> "none"]
NoPrev == [status |-> "none"]

RecordKeys == {"default", "0", "60"}
StepKeys == {"subname", "forwardResolution", "reverseResolution",
             "l2ForwardResolution", "l2ReverseResolution"}
NoTransactions == [k \in StepKeys |-> 0]

NoLocal ==
  [contractType |-> "Unknown", nameExists |-> FALSE, isWrapped |-> FALSE,
   resolver |-> ZeroAddress, currentAddr |-> ZeroAddress, isOwner |-> FALSE,
   txn |-> 0, error |-> "", call |-> "", faulted |-> FALSE, caught |-> FALSE]

Variants == {"stepwise", "chainName", "inline"}
(***************************************************************************)
(* The request and its configuration.                                      *)
(***************************************************************************)
IsL2Path == cfg.variant = "chainName" /\ getNetworkInfo(cfg.chainName).isL2

\* The step implementation in use: L2Naming on the L2 path of the chainName
\* build, the L1 step functions otherwise.
Impl == IF IsL2Path THEN "L2" ELSE "L1"

\* l2WalletClient && l2Contracts
Secondary == cfg.variant # "chainName" /\ cfg.secondary

\* Telemetry is posted after a write: always by the inline build, under the
\* enableMetrics flag by the others.
MetricsOn == cfg.variant = "inline" \/ cfg.enableMetrics

Configs ==
  { c \in [variant : Variants, chainName : {"sepolia", "Base"}, secondary : BOOLEAN,
           coinType : {"undefined", "0", "60"}, enableMetrics : BOOLEAN] :
      /\ c.variant = "chainName" => ~c.secondary
      /\ c.variant # "chainName" => c.chainName = "sepolia"
      /\ c.variant = "inline" => ~c.enableMetrics
      /\ (c.coinType # "undefined") <=>
           (c.secondary \/ (c.variant = "chainName" /\ getNetworkInfo(c.chainName).isL2)) }

\* The calls made: nameContract; or one step function on its own, under
\* the L1 steps (stepwise build) or the L2 steps (chainName build, L2 chain).
Requests(c) ==
  { r \in [op : {"nameContract", "createSubname", "setForwardResolution", "setReverseResolution"},
           name : {Name1, DotlessName}, contractAddress : {"0xaa", "0xAa", MalformedAddress},
           contractType : ContractTypes, coinType : {"undefined", "0", "60"}] :
      /\ r.op # "nameContract" =>
           \/ c.variant = "stepwise" /\ ~c.secondary
           \/ c.variant = "chainName" /\ c.coinType = "60"
      /\ r.op # "setReverseResolution" => r.contractType = "Unknown"
      /\ r.op # "setForwardResolution" => r.coinType = "undefined"
      /\ r.op \in {"nameContract", "createSubname", "setReverseResolution"}
           => r.contractAddress \in {"0xaa", MalformedAddress}
      /\ r.op # "nameContract" => r.name = Name1 /\ r.contractAddress # MalformedAddress
      /\ r.name = DotlessName => r.contractAddress = "0xaa" }

\* Chain facts: those no call of the request reads are left at one value,
\* except the wrapping of the parent, which every chain has.
Worlds(c, r) ==
  { w \in [wrapped : BOOLEAN, contractOwner : {"revert", AccountAddress, OtherAccount},
           reverseNodeOwner : {AccountAddress, OtherAccount},
           l2ContractOwner : {"revert", AccountAddress, OtherAccount},
           parentResolver : {"PUBLIC_RESOLVER", "CUSTOM_RESOLVER"}] :
      /\ ~(c.variant # "chainName" /\ c.secondary) => w.l2ContractOwner = "revert"
      /\ ~(c.variant = "chainName" /\ getNetworkInfo(c.chainName).isL2)
           => w.parentResolver = "PUBLIC_RESOLVER"
      /\ r.op \in {"setForwardResolution", "setReverseResolution"}
           => ~w.wrapped /\ w.parentResolver = "PUBLIC_RESOLVER"
      /\ (r.op \in {"createSubname", "setForwardResolution"} \/ r.contractAddress = MalformedAddress)
           => w.contractOwner = "revert" /\ w.reverseNodeOwner = OtherAccount
      /\ r.contractAddress = MalformedAddress => w.l2ContractOwner = "revert"
      /\ r.name = DotlessName => ~w.wrapped /\ w.parentResolver = "PUBLIC_RESOLVER" }

ExistingRecord == [owner |-> AccountAddress, resolver |-> "PUBLIC_RESOLVER"]

\* The forward record the (primary) forward step of a request reads and
\* writes: qualified by a truthy coinType option, the default record otherwise.
PrimaryForwardKey(r) ==
  LET coin == IF r.op = "setForwardResolution" THEN r.coinType
              ELSE IF IsL2Path THEN Number(cfg.coinType) ELSE "undefined"
  IN IF Truthy(coin) THEN coin ELSE "default"

\* The state before any call is in progress; `started` is the number of
\* calls each caller has already been counted for.
InitWith(started) ==
  /\ cfg \in Configs
  /\ \E r \in Requests(cfg) : request = [p \in Procs |-> r]
  /\ world \in Worlds(cfg, request[1])
  /\ \E rec \in {NoRecord, ExistingRecord} :
       /\ rec # NoRecord => ~world.wrapped /\ world.parentResolver = "PUBLIC_RESOLVER"
       /\ request[1].op \in {"setForwardResolution", "setReverseResolution"} => rec # NoRecord
       /\ request[1].name = DotlessName => rec = NoRecord
       /\ registry = [n \in Names |-> IF n = Name1 THEN rec ELSE ExistingRecord]
  /\ \E a \in {ZeroAddress, "0xbb", "0xaa"} :
       /\ (registry[Name1] = NoRecord \/ request[1].op \in {"createSubname", "setReverseResolution"}
             \/ request[1].contractAddress = MalformedAddress)
            => a = ZeroAddress
       /\ addrRecord = [n \in Names |-> [k \in RecordKeys |->
                          IF n = Name2 /\ k = "default" THEN "0xbb"
                          ELSE IF n = Name1 /\ k = PrimaryForwardKey(request[1]) THEN a
                          ELSE ZeroAddress]]
  /\ reverseName = [net \in {"primary", "secondary"} |->
                     [a \in {"0xaa", "0xbb", MalformedAddress} |->
                        IF a = "0xbb" /\ net = "primary" THEN Name2 ELSE ""]]
  /\ pc = [p \in Procs |-> "idle"]
  /\ phase = [p \in Procs |-> "Idle"]
  /\ local = [p \in Procs |-> NoLocal]
  /\ txs = [p \in Procs |-> <<>>]
  /\ transactions = [p \in Procs |-> NoTransactions]
  /\ result = [p \in Procs |-> NoResult]
  /\ metrics = [p \in Procs |-> <<>>]
  /\ pre = [p \in Procs |-> [exists |-> FALSE, addr |-> [k \in RecordKeys |-> ZeroAddress],
                              reverse |-> [net \in {"primary", "secondary"} |-> ""]]]
  /\ prev = [p \in Procs |-> NoPrev]
  /\ calls = [p \in Procs |-> started]
  /\ onchain = [p \in Procs |-> FALSE]

Init == InitWith(0)
(***************************************************************************)
(* Control: what follows each step.                                        *)
(***************************************************************************)
Req(p) == request[p]

\* detectContractType probes in this order: ReverseClaimer first in the
\* stepwise and inline builds, Ownable first in utils.ts (chainName build).
DetectOrderOf(variant) ==
  IF variant = "chainName" THEN <<"Ownable", "ReverseClaimer">>
  ELSE <<"ReverseClaimer", "Ownable">>

DetectOrder == DetectOrderOf(cfg.variant)

ProbePc(type) == IF type = "ReverseClaimer" THEN "detect_rc" ELSE "detect_own"

\* A variant storing the reverse hash under the secondary key, used to test
\* the properties below.
StepKeyShifted(ph) ==
  CASE ph = "RegisteringSubname" -> "subname"
    [] ph = "SettingForward" -> "forwardResolution"
    [] ph = "MirroringForward" -> "l2ForwardResolution"
    [] OTHER -> "l2ReverseResolution"

\* The key of the transactions map a step's hash is stored under.
StepKey(ph) ==
  CASE ph = "RegisteringSubname" -> "subname"
    [] ph = "SettingForward" -> "forwardResolution"
    [] ph = "SettingReverse" -> "reverseResolution"
    [] ph = "MirroringForward" -> "l2ForwardResolution"
    [] OTHER -> "l2ReverseResolution"

At(ph, l) == [phase |-> ph, pc |-> l]

\* Where nameContract goes when the step ph has returned.
After(ph, loc) ==
  CASE ph = "Detecting" ->
         IF cfg.variant = "inline"
         THEN (IF loc.nameExists THEN At("SettingForward", "read_addr")
               ELSE At("RegisteringSubname", "wrapped"))
         ELSE At("RegisteringSubname", "exists")
    [] ph = "RegisteringSubname" -> At("SettingForward", "read_addr")
    [] ph = "SettingForward" -> At("SettingReverse", "owner")
    [] ph = "SettingReverse" ->
         IF Secondary THEN At("MirroringForward", "read_addr") ELSE At("Done", "done")
    [] ph = "MirroringForward" -> At("MirroringReverse", "l2_owner")
    [] OTHER -> At("Done", "done")

\* Where a call starts.
Entry(r) ==
  CASE r.op = "nameContract" ->
         IF cfg.variant = "inline" THEN At("RegisteringSubname", "exists")
         ELSE At("Detecting", ProbePc(DetectOrder[1]))
    [] r.op = "createSubname" -> At("RegisteringSubname", "exists")
    [] r.op = "setForwardResolution" -> At("SettingForward", "read_addr")
    [] OTHER -> At("SettingReverse", "owner")

\* A result that does not carry the detected type, used to test the
\* properties below.
NameContractResultUntyped(tr, type) ==
  [kind |-> "nameContract", success |-> TRUE, transactions |-> tr, contractType |-> "Unknown"]

NameContractResult(tr, type) ==
  [kind |-> "nameContract", success |-> TRUE, transactions |-> tr, contractType |-> type]

StepResult(hash, reason) ==
  [kind |-> "step", performed |-> hash # 0, transactionHash |-> hash, reason |-> reason]

\* The awaited call at pc[p] sends a request to a contract: the probes and
\* isContractOwner return early on an invalid address, parseNormalizedName
\* throws before recordExists is read, and viem refuses to encode a malformed
\* address argument before anything is sent.
IssuesCall(p) ==
  CASE pc[p] \in {"detect_rc", "detect_own", "owner"} ->
         ~isAddressEmpty(Req(p).contractAddress) /\ isAddressValid(Req(p).contractAddress)
    [] pc[p] = "exists" -> parseNormalizedName(Req(p).name).error = ""
    [] pc[p] \in {"write_addr", "write_rev", "l2_write"} -> isAddress(Req(p).contractAddress)
    [] pc[p] \in {"receipt", "metric"} -> FALSE
    [] OTHER -> TRUE

Issued(p) == onchain' = [onchain EXCEPT ![p] = @ \/ IssuesCall(p)]

\* What the error of a failed awaited call names: viem's contract errors
\* carry the function name, a receipt or fetch failure carries none, the
\* two errors thrown by the library carry their message.
CallName(l) ==
  CASE l = "exists" -> "recordExists"
    [] l = "wrapped" -> "isWrapped"
    [] l = "resolver" -> "resolver"
    [] l = "write_sub" -> "setSubnodeRecord"
    [] l = "read_addr" -> "addr"
    [] l = "write_addr" -> "setAddr"
    [] l \in {"owner", "rev_owner"} -> "owner"
    [] l \in {"write_rev", "l2_write"} -> "setName"
    [] OTHER -> ""

\* The current step returns: hash is its transaction (0: it was skipped).
Complete(p, loc, hash, reason) ==
  LET ph == phase[p]
      tr == IF hash # 0 /\ ph # "Detecting"
            THEN [transactions[p] EXCEPT ![StepKey(ph)] = hash] ELSE transactions[p]
      nxt == After(ph, loc)
  IN /\ local' = [local EXCEPT ![p] = [loc EXCEPT !.caught = @ \/ reason = "caught"]]
     /\ Issued(p)
     /\ IF Req(p).op = "nameContract"
        THEN /\ transactions' = [transactions EXCEPT ![p] = tr]
             /\ pc' = [pc EXCEPT ![p] = nxt.pc]
             /\ phase' = [phase EXCEPT ![p] = nxt.phase]
             /\ result' = IF nxt.pc = "done"
                          THEN [result EXCEPT ![p] = NameContractResult(tr, loc.contractType)]
                          ELSE result
        ELSE /\ transactions' = transactions
             /\ pc' = [pc EXCEPT ![p] = "done"]
             /\ phase' = [phase EXCEPT ![p] = "Done"]
             /\ result' = [result EXCEPT ![p] = StepResult(hash, reason)]

\* The current step throws and the error reaches the caller.
Throw(p, loc, err) ==
  /\ pc' = [pc EXCEPT ![p] = "failed"]
  /\ local' = [local EXCEPT ![p] = [loc EXCEPT !.error = err,
                                              !.call = IF err = "ChainCallFailure"
                                                       THEN CallName(pc[p]) ELSE ""]]
  /\ Issued(p)
  /\ UNCHANGED <<phase, transactions, result>>

\* An awaited call threw (a revert the chain state decides is not counted).
Fault(loc) == [loc EXCEPT !.faulted = TRUE]

Goto(p, loc, l) ==
  /\ pc' = [pc EXCEPT ![p] = l]
  /\ local' = [local EXCEPT ![p] = loc]
  /\ Issued(p)
  /\ UNCHANGED <<phase, transactions, result>>

\* What is kept of a call when the next one starts: how it ended and what
\* it returned.
Summary(p) == [status |-> pc[p], result |-> result[p]]

Snapshot(r) ==
  [exists |-> registry[r.name] # NoRecord, addr |-> addrRecord[r.name],
   reverse |-> [net \in {"primary", "secondary"} |->
                  reverseName[net][ReverseNode(r.contractAddress)]]]

Start(p) ==
  /\ pc[p] \in {"idle", "done", "failed"}
  /\ calls[p] < MaxCalls
  /\ calls' = [calls EXCEPT ![p] = @ + 1]
  /\ prev' = [prev EXCEPT ![p] = IF pc[p] = "idle" THEN NoPrev ELSE Summary(p)]
  /\ pre' = [pre EXCEPT ![p] = Snapshot(Req(p))]
  /\ pc' = [pc EXCEPT ![p] = Entry(Req(p)).pc]
  /\ phase' = [phase EXCEPT ![p] = Entry(Req(p)).phase]
  /\ local' = [local EXCEPT ![p] = [NoLocal EXCEPT !.contractType = Req(p).contractType]]
  /\ txs' = [txs EXCEPT ![p] = <<>>]
  /\ metrics' = [metrics EXCEPT ![p] = <<>>]
  /\ transactions' = [transactions EXCEPT ![p] = NoTransactions]
  /\ result' = [result EXCEPT ![p] = NoResult]
  /\ onchain' = [onchain EXCEPT ![p] = FALSE]
  /\ UNCHANGED <<cfg, request, world, chainVars>>

(***************************************************************************)
(* detectContractType                                                      *)
(***************************************************************************)
SameAddress(a, b) == ToLowerCase(a) = ToLowerCase(b)

\* A probe without the catch block around its read, used to test the
\* properties below.
ProbedRaising(p, loc, type, yes) ==
  IF loc.faulted THEN Throw(p, loc, "ChainCallFailure")
  ELSE IF yes THEN Complete(p, [loc EXCEPT !.contractType = type], 0, "")
  ELSE IF DetectOrder[1] = type
       THEN Goto(p, loc, ProbePc(DetectOrder[2]))
       ELSE Complete(p, [loc EXCEPT !.contractType = "Unknown"], 0, "")

\* A detection that reuses the type a previous call returned, used to test
\* the properties below.
ProbedCached(p, loc, type, yes) ==
  IF prev[p].status = "done"
  THEN Complete(p, [loc EXCEPT !.contractType = prev[p].result.contractType], 0, "")
  ELSE IF yes THEN Complete(p, [loc EXCEPT !.contractType = type], 0, "")
  ELSE IF DetectOrder[1] = type
       THEN Goto(p, loc, ProbePc(DetectOrder[2]))
       ELSE Complete(p, [loc EXCEPT !.contractType = "Unknown"], 0, "")

\* A detection that disregards what the probes answer, used to test the
\* properties below.
ProbedNever(p, loc, type, yes) ==
  IF DetectOrder[1] = type
  THEN Goto(p, loc, ProbePc(DetectOrder[2]))
  ELSE Complete(p, [loc EXCEPT !.contractType = "Unknown"], 0, "")

\* The probe `type` answered `yes`: classify, or go on to the next probe.
Probed(p, loc, type, yes) ==
  IF yes THEN Complete(p, [loc EXCEPT !.contractType = type], 0, "")
  ELSE IF DetectOrder[1] = type
       THEN Goto(p, loc, ProbePc(DetectOrder[2]))
       ELSE Complete(p, [loc EXCEPT !.contractType = "Unknown"], 0, "")

Tried(p, ok) == IF ok THEN local[p] ELSE Fault(local[p])

\* isReverseClaimable: registry.owner(reverseNode) equals the account; a
\* throwing read and an invalid address answer false.
DetectReverseClaimable(p) ==
  /\ pc[p] = "detect_rc"
  /\ \E ok \in BOOLEAN :
       Probed(p, Tried(p, ok), "ReverseClaimer",
              /\ ~isAddressEmpty(Req(p).contractAddress)
              /\ isAddressValid(Req(p).contractAddress)
              /\ ok
              /\ SameAddress(Checksum(world.reverseNodeOwner), AccountAddress))
  /\ UNCHANGED <<cfg, request, world, chainVars, txs, metrics, pre, prev, calls>>

\* isOwnable: owner() returns; a revert, a throwing read and an invalid
\* address answer false.
DetectOwnable(p) ==
  /\ pc[p] = "detect_own"
  /\ \E ok \in (IF world.contractOwner = "revert" THEN {TRUE} ELSE BOOLEAN) :
       Probed(p, Tried(p, ok), "Ownable",
              /\ ~isAddressEmpty(Req(p).contractAddress)
              /\ isAddressValid(Req(p).contractAddress)
              /\ ok
              /\ world.contractOwner # "revert")
  /\ UNCHANGED <<cfg, request, world, chainVars, txs, metrics, pre, prev, calls>>
(***************************************************************************)
(* Transactions and their effect on the chain.                             *)
(***************************************************************************)
NoArgs ==
  [node |-> "-", label |-> "-", owner |-> "-", resolver |-> "-", key |-> "-",
   value |-> "-", zeros |-> "-"]

\* keccak256(toBytes(label))
Keccak(label) ==
  CASE label = "foo" -> "keccak256(foo)"
    [] label = "baz" -> "keccak256(baz)"
    [] OTHER -> "keccak256(?)"

\* A writeContract call: `subject` is the name or address whose record the
\* written contract function changes.
Tx(step, client, to, fn, subject, args, ok) ==
  [step |-> step, client |-> client, to |-> to, fn |-> fn, subject |-> subject,
   args |-> args, status |-> IF ok THEN "submitted" ELSE "rejected"]

Submitted(p) == { i \in DOMAIN txs[p] : txs[p][i].status # "rejected" }

\* A variant without the try block around the secondary reverse write, used
\* to test the properties below.
WriteUncaught(p, tx) ==
  /\ txs' = [txs EXCEPT ![p] = Append(@, tx)]
  /\ IF tx.status = "submitted"
     THEN Goto(p, [local[p] EXCEPT !.txn = Len(txs[p]) + 1], "receipt")
     ELSE Throw(p, Fault(local[p]), "ChainCallFailure")
  /\ UNCHANGED <<cfg, request, world, chainVars, metrics, pre, prev, calls>>

\* A variant that goes on without waiting for the receipt, used to test the
\* properties below.
WriteNoWait(p, tx) ==
  /\ txs' = [txs EXCEPT ![p] = Append(@, tx)]
  /\ IF tx.status = "submitted"
     THEN Complete(p, [local[p] EXCEPT !.txn = Len(txs[p]) + 1], Len(txs[p]) + 1, "")
     ELSE Throw(p, Fault(local[p]), "ChainCallFailure")
  /\ UNCHANGED <<cfg, request, world, chainVars, metrics, pre, prev, calls>>

\* writeContract: the call is logged; it returns the hash or throws.
Write(p, tx) ==
  /\ txs' = [txs EXCEPT ![p] = Append(@, tx)]
  /\ IF tx.status = "submitted"
     THEN Goto(p, [local[p] EXCEPT !.txn = Len(txs[p]) + 1], "receipt")
     ELSE IF phase[p] = "MirroringReverse"
          THEN Complete(p, Fault(local[p]), 0, "caught")
          ELSE Throw(p, Fault(local[p]), "ChainCallFailure")
  /\ UNCHANGED <<cfg, request, world, chainVars, metrics, pre, prev, calls>>

\* The mined transaction changes the record it was sent for.
Apply(tx) ==
  /\ registry' = IF tx.fn = "setSubnodeRecord"
                 THEN [registry EXCEPT ![tx.subject] =
                         [owner |-> tx.args.owner, resolver |-> tx.args.resolver]]
                 ELSE registry
  /\ addrRecord' = IF tx.fn = "setAddr"
                   THEN [addrRecord EXCEPT ![tx.subject][tx.args.key] = ToLowerCase(tx.args.value)]
                   ELSE addrRecord
  /\ reverseName' = IF tx.fn \in {"setName", "setNameForAddr"}
                    THEN [reverseName EXCEPT ![tx.client][ReverseNode(tx.subject)] = tx.args.value]
                    ELSE reverseName

\* The telemetry event of the step a transaction belongs to.
MetricEvent(p, tx) ==
  [step |-> CASE tx.fn = "setSubnodeRecord" -> "subname::setSubnodeRecord"
              [] tx.fn = "setAddr" -> "fwdres::setAddr"
              [] tx.fn = "setName" -> "revres::setName"
              [] OTHER -> "revres::setNameForAddr",
   txn |-> local[p].txn,
   contractType |-> local[p].contractType]

\* waitForTransactionReceipt: the transaction is mined and the receipt
\* returns, or the wait throws with the transaction mined late or dropped.
WaitForTransactionReceipt(p) ==
  /\ pc[p] = "receipt"
  /\ \E outcome \in {"confirmed", "late", "dropped"} :
       LET tx == txs[p][local[p].txn] IN
       /\ txs' = [txs EXCEPT ![p][local[p].txn].status = outcome]
       /\ IF outcome = "dropped" THEN UNCHANGED chainVars ELSE Apply(tx)
       /\ IF outcome = "confirmed"
          THEN IF MetricsOn THEN Goto(p, local[p], "metric")
               ELSE Complete(p, local[p], local[p].txn, "")
          ELSE IF phase[p] = "MirroringReverse"
               THEN Complete(p, Fault(local[p]), 0, "caught")
               ELSE Throw(p, Fault(local[p]), "ChainCallFailure")
  /\ UNCHANGED <<cfg, request, world, metrics, pre, prev, calls>>

\* await logMetric(...): the event is posted, or fetch rejects.
LogMetric(p) ==
  /\ pc[p] = "metric"
  /\ \E ok \in BOOLEAN :
       IF ok
       THEN /\ metrics' = [metrics EXCEPT ![p] = Append(@, MetricEvent(p, txs[p][local[p].txn]))]
            /\ Complete(p, local[p], local[p].txn, "")
       ELSE /\ metrics' = metrics
            /\ IF phase[p] = "MirroringReverse"
               THEN Complete(p, Fault(local[p]), 0, "caught")
               ELSE Throw(p, Fault(local[p]), "TelemetryFailure")
  /\ UNCHANGED <<cfg, request, world, chainVars, txs, pre, prev, calls>>

(***************************************************************************)
(* createSubname                                                           *)
(***************************************************************************)
ReadOnly == <<cfg, request, world, chainVars, txs, metrics, pre, prev, calls>>

\* A variant without the existence check, used to test the properties below.
SubnameExistsNever(nameExists) == FALSE

\* if (nameExists) return { created: false }
SubnameExists(nameExists) == nameExists

\* parseNormalizedName, then registry.recordExists(fullNameNode).
ReadRecordExists(p) ==
  /\ pc[p] = "exists"
  /\ IF parseNormalizedName(Req(p).name).error # ""
     THEN Throw(p, local[p], "InvalidNameFormat")
     ELSE \E ok \in BOOLEAN :
            LET nameExists == registry[Req(p).name] # NoRecord
                loc == [local[p] EXCEPT !.nameExists = nameExists]
            IN IF ~ok THEN Throw(p, Fault(local[p]), "ChainCallFailure")
               ELSE IF Req(p).op = "nameContract" /\ cfg.variant = "inline"
                    THEN /\ pc' = [pc EXCEPT ![p] = ProbePc(DetectOrder[1])]
                         /\ phase' = [phase EXCEPT ![p] = "Detecting"]
                         /\ local' = [local EXCEPT ![p] = loc]
                         /\ Issued(p)
                         /\ UNCHANGED <<transactions, result>>
                    ELSE IF SubnameExists(nameExists) THEN Complete(p, loc, 0, "exists")
                    ELSE Goto(p, loc, IF Impl = "L2" THEN "resolver" ELSE "wrapped")
  /\ UNCHANGED ReadOnly

\* nameWrapper.isWrapped(parentNode)
ReadIsWrapped(p) ==
  /\ pc[p] = "wrapped"
  /\ \E ok \in BOOLEAN :
       IF ok THEN Goto(p, [local[p] EXCEPT !.isWrapped = world.wrapped], "write_sub")
       ELSE Throw(p, Fault(local[p]), "ChainCallFailure")
  /\ UNCHANGED ReadOnly

\* L2Naming: registry.resolver(parentNode)
ReadParentResolver(p) ==
  /\ pc[p] = "resolver"
  /\ \E ok \in BOOLEAN :
       IF ok THEN Goto(p, [local[p] EXCEPT !.resolver = world.parentResolver], "write_sub")
       ELSE Throw(p, Fault(local[p]), "ChainCallFailure")
  /\ UNCHANGED ReadOnly

\* The setSubnodeRecord call createSubname makes for the name.
SubnodeTx(p, ok) ==
  LET parsed == parseNormalizedName(Req(p).name) IN
  IF Impl = "L2"
  THEN Tx(phase[p], "primary", "ENS_REGISTRY", "setSubnodeRecord", Req(p).name,
          [NoArgs EXCEPT !.node = parsed.parent, !.label = Keccak(parsed.label),
                         !.owner = AccountAddress, !.resolver = local[p].resolver,
                         !.zeros = "0"], ok)
  ELSE IF local[p].isWrapped
  THEN Tx(phase[p], "primary", "NAME_WRAPPER", "setSubnodeRecord", Req(p).name,
          [NoArgs EXCEPT !.node = parsed.parent, !.label = parsed.label,
                         !.owner = AccountAddress, !.resolver = "PUBLIC_RESOLVER",
                         !.zeros = "0,0,0"], ok)
  ELSE Tx(phase[p], "primary", "ENS_REGISTRY", "setSubnodeRecord", Req(p).name,
          [NoArgs EXCEPT !.node = parsed.parent, !.label = Keccak(parsed.label),
                         !.owner = AccountAddress, !.resolver = "PUBLIC_RESOLVER",
                         !.zeros = "0"], ok)

\* A variant that looks at the registry again before writing, used to test
\* the properties below.
WriteSubnodeChecked(p) ==
  /\ pc[p] = "write_sub"
  /\ IF registry[Req(p).name] # NoRecord
     THEN Complete(p, local[p], 0, "exists") /\ UNCHANGED ReadOnly
     ELSE \E ok \in BOOLEAN : Write(p, SubnodeTx(p, ok))

WriteSubnode(p) ==
  /\ pc[p] = "write_sub"
  /\ \E ok \in BOOLEAN : Write(p, SubnodeTx(p, ok))
(***************************************************************************)
(* setForwardResolution                                                    *)
(***************************************************************************)
\* The coinType option the forward step is called with.
ForwardCoin(p) ==
  IF Req(p).op = "setForwardResolution" THEN Req(p).coinType
  ELSE IF cfg.variant = "chainName"
       THEN (IF IsL2Path THEN Number(cfg.coinType) ELSE "undefined")
       ELSE (IF phase[p] = "MirroringForward" THEN Number(cfg.coinType) ELSE "undefined")

\* A variant that always addresses the default record, used to test the
\* properties below.
ForwardKeyDefault(p) == "default"

\* The record read and written: `coinType ? addr(node, coinType) : addr(node)`
\* in the step functions; the inline build qualifies its secondary record
\* by Number(COIN_TYPE) whatever its value.
ForwardKey(p) ==
  IF cfg.variant = "inline"
  THEN (IF phase[p] = "MirroringForward" THEN ForwardCoin(p) ELSE "default")
  ELSE (IF Truthy(ForwardCoin(p)) THEN ForwardCoin(p) ELSE "default")

\* resolver.addr(...): an address-typed result comes back checksummed, a
\* coin-type record as the stored bytes.
AddrRead(name, key) ==
  IF key = "default" THEN Checksum(addrRecord[name][key]) ELSE addrRecord[name][key]

\* Variants of the comparison, used to test the properties below.
AlreadySetAny(currentAddr, contractAddress) == currentAddr # ZeroAddress

AlreadySetExact(currentAddr, contractAddress) == currentAddr = contractAddress

\* currentAddr.toLowerCase() === contractAddress.toLowerCase()
AlreadySet(currentAddr, contractAddress) ==
  ToLowerCase(currentAddr) = ToLowerCase(contractAddress)

ReadAddr(p) ==
  /\ pc[p] = "read_addr"
  /\ \E ok \in BOOLEAN :
       LET currentAddr == AddrRead(Req(p).name, ForwardKey(p))
           loc == [local[p] EXCEPT !.currentAddr = currentAddr]
       IN IF ~ok THEN Throw(p, Fault(local[p]), "ChainCallFailure")
          ELSE IF AlreadySet(currentAddr, Req(p).contractAddress)
               THEN Complete(p, loc, 0, "already_set")
               ELSE Goto(p, loc, "write_addr")
  /\ UNCHANGED ReadOnly

\* A variant that takes the name from the first caller's request, used to
\* test the properties below.
ForwardTxShared(p, ok) ==
  Tx(phase[p], "primary", "PUBLIC_RESOLVER", "setAddr", Req(1).name,
     [NoArgs EXCEPT !.node = Req(1).name, !.key = ForwardKey(p),
                    !.value = Req(p).contractAddress], ok)

ForwardTx(p, ok) ==
  Tx(phase[p], "primary", "PUBLIC_RESOLVER", "setAddr", Req(p).name,
     [NoArgs EXCEPT !.node = Req(p).name, !.key = ForwardKey(p),
                    !.value = Req(p).contractAddress], ok)

\* writeContract with the contract address among its arguments: encoding a
\* malformed address throws.
WriteOutcomes(p) == IF isAddress(Req(p).contractAddress) THEN BOOLEAN ELSE {FALSE}

WriteAddr(p) ==
  /\ pc[p] = "write_addr"
  /\ \E ok \in WriteOutcomes(p) : Write(p, ForwardTx(p, ok))

(***************************************************************************)
(* setReverseResolution                                                    *)
(***************************************************************************)
\* A dispatch without the final else branch, used to test the properties below.
DispatchAnyType(p, loc, isOwner) ==
  IF ~isOwner THEN Complete(p, [loc EXCEPT !.isOwner = FALSE], 0, "not_owner")
  ELSE Goto(p, [loc EXCEPT !.isOwner = TRUE], "write_rev")

\* A dispatch that treats a caller who is not the owner as an error, used to
\* test the properties below.
DispatchStrict(p, loc, isOwner) ==
  IF ~isOwner THEN Throw(p, [loc EXCEPT !.isOwner = FALSE], "NotOwner")
  ELSE IF loc.contractType \in {"ReverseClaimer", "Ownable"}
       THEN Goto(p, [loc EXCEPT !.isOwner = TRUE], "write_rev")
       ELSE Throw(p, [loc EXCEPT !.isOwner = TRUE], "UnsupportedContractType")

\* After isContractOwner: not the owner is a skip; the owner's write is
\* chosen by contract type; any other type throws.
Dispatch(p, loc, isOwner) ==
  IF ~isOwner THEN Complete(p, [loc EXCEPT !.isOwner = FALSE], 0, "not_owner")
  ELSE IF loc.contractType \in {"ReverseClaimer", "Ownable"}
       THEN Goto(p, [loc EXCEPT !.isOwner = TRUE], "write_rev")
       ELSE Throw(p, [loc EXCEPT !.isOwner = TRUE], "UnsupportedContractType")

\* A variant that asks the registry whenever owner() does not name the
\* caller, used to test the properties below.
ReadOwnerEither(p) ==
  /\ pc[p] = "owner"
  /\ IF isAddressEmpty(Req(p).contractAddress) \/ ~isAddressValid(Req(p).contractAddress)
     THEN Dispatch(p, local[p], FALSE)
     ELSE \E ok \in (IF world.contractOwner = "revert" THEN {TRUE} ELSE BOOLEAN) :
            IF ok /\ world.contractOwner # "revert"
                  /\ SameAddress(Checksum(world.contractOwner), AccountAddress)
            THEN Dispatch(p, local[p], TRUE)
            ELSE Goto(p, Tried(p, ok), "rev_owner")
  /\ UNCHANGED ReadOnly

\* isContractOwner, first read: owner() of the contract. An invalid address
\* answers false without a read; a throwing read falls back to the registry.
ReadOwner(p) ==
  /\ pc[p] = "owner"
  /\ IF isAddressEmpty(Req(p).contractAddress) \/ ~isAddressValid(Req(p).contractAddress)
     THEN Dispatch(p, local[p], FALSE)
     ELSE \E ok \in (IF world.contractOwner = "revert" THEN {TRUE} ELSE BOOLEAN) :
            IF ok /\ world.contractOwner # "revert"
            THEN Dispatch(p, local[p], SameAddress(Checksum(world.contractOwner), AccountAddress))
            ELSE Goto(p, Tried(p, ok), "rev_owner")
  /\ UNCHANGED ReadOnly

\* isContractOwner, the catch block: registry.owner(reverseNode); this read
\* is not guarded.
ReadReverseNodeOwner(p) ==
  /\ pc[p] = "rev_owner"
  /\ \E ok \in BOOLEAN :
       IF ok THEN Dispatch(p, local[p],
                           SameAddress(Checksum(world.reverseNodeOwner), AccountAddress))
       ELSE Throw(p, Fault(local[p]), "ChainCallFailure")
  /\ UNCHANGED ReadOnly

\* The two writes exchanged, used to test the properties below.
ReverseTxSwapped(p, type, ok) ==
  IF type = "Ownable"
  THEN Tx(phase[p], "primary", "PUBLIC_RESOLVER", "setName", Req(p).contractAddress,
          [NoArgs EXCEPT !.node = ReverseNode(Req(p).contractAddress),
                         !.value = Req(p).name], ok)
  ELSE Tx(phase[p], "primary", "REVERSE_REGISTRAR", "setNameForAddr", Req(p).contractAddress,
          [NoArgs EXCEPT !.node = Req(p).contractAddress, !.owner = AccountAddress,
                         !.resolver = "PUBLIC_RESOLVER", !.value = Req(p).name], ok)

\* The reverse write for a contract type.
ReverseTx(p, type, ok) ==
  IF type = "ReverseClaimer"
  THEN Tx(phase[p], "primary", "PUBLIC_RESOLVER", "setName", Req(p).contractAddress,
          [NoArgs EXCEPT !.node = ReverseNode(Req(p).contractAddress),
                         !.value = Req(p).name], ok)
  ELSE IF Impl = "L2"
  THEN Tx(phase[p], "primary", "REVERSE_REGISTRAR", "setNameForAddr", Req(p).contractAddress,
          [NoArgs EXCEPT !.node = Req(p).contractAddress, !.value = Req(p).name], ok)
  ELSE Tx(phase[p], "primary", "REVERSE_REGISTRAR", "setNameForAddr", Req(p).contractAddress,
          [NoArgs EXCEPT !.node = Req(p).contractAddress, !.owner = AccountAddress,
                         !.resolver = "PUBLIC_RESOLVER", !.value = Req(p).name], ok)

WriteReverse(p) ==
  /\ pc[p] = "write_rev"
  /\ \E ok \in WriteOutcomes(p) : Write(p, ReverseTx(p, local[p].contractType, ok))

(***************************************************************************)
(* nameContract: reverse resolution on the secondary network               *)
(***************************************************************************)
\* owner() read with the secondary client, inside the try block.
L2ReadOwner(p) ==
  /\ pc[p] = "l2_owner"
  /\ \E ok \in (IF world.l2ContractOwner = "revert" THEN {TRUE} ELSE BOOLEAN) :
       IF ok /\ world.l2ContractOwner # "revert"
       THEN Goto(p, local[p], "l2_write")
       ELSE Complete(p, Tried(p, ok), 0, "caught")
  /\ UNCHANGED ReadOnly

\* A variant sending the secondary reverse write with the primary client to
\* the primary reverse registrar, used to test the properties below.
L2ReverseTxPrimary(p, ok) ==
  Tx(phase[p], "primary", "REVERSE_REGISTRAR", "setNameForAddr", Req(p).contractAddress,
     [NoArgs EXCEPT !.node = Req(p).contractAddress, !.value = Req(p).name], ok)

L2ReverseTx(p, ok) ==
  Tx(phase[p], "secondary", "L2_REVERSE_REGISTRAR", "setNameForAddr", Req(p).contractAddress,
     [NoArgs EXCEPT !.node = Req(p).contractAddress, !.value = Req(p).name], ok)

L2WriteReverse(p) ==
  /\ pc[p] = "l2_write"
  /\ \E ok \in WriteOutcomes(p) : Write(p, L2ReverseTx(p, ok))

(***************************************************************************)
(* Specification: one process makes its calls one after another.           *)
(***************************************************************************)
Step(p) ==
  \/ DetectReverseClaimable(p)
  \/ DetectOwnable(p)
  \/ ReadRecordExists(p)
  \/ ReadIsWrapped(p)
  \/ ReadParentResolver(p)
  \/ WriteSubnode(p)
  \/ ReadAddr(p)
  \/ WriteAddr(p)
  \/ ReadOwner(p)
  \/ ReadReverseNodeOwner(p)
  \/ WriteReverse(p)
  \/ L2ReadOwner(p)
  \/ L2WriteReverse(p)
  \/ WaitForTransactionReceipt(p)
  \/ LogMetric(p)

Next == Start(1) \/ Step(1)

Spec == Init /\ [][Next]_vars

(***************************************************************************)
(* Specification: two callers make the same well-formed request at the     *)
(* same time, one call each; their awaited calls interleave.               *)
(***************************************************************************)
InitConc ==
  /\ InitWith(MaxCalls - 1)
  /\ request[1].op \in {"nameContract", "createSubname"}
  /\ WellFormed(request[1])
  /\ ~Secondary /\ ~IsL2Path /\ ~cfg.enableMetrics
  /\ registry[Name1] = NoRecord
  /\ world.contractOwner # OtherAccount
  /\ world.reverseNodeOwner = OtherAccount

\* The awaited calls of a request without secondary network on an L1 chain.
StepConc(p) ==
  \/ DetectReverseClaimable(p)
  \/ DetectOwnable(p)
  \/ ReadRecordExists(p)
  \/ ReadIsWrapped(p)
  \/ WriteSubnode(p)
  \/ ReadAddr(p)
  \/ WriteAddr(p)
  \/ ReadOwner(p)
  \/ ReadReverseNodeOwner(p)
  \/ WriteReverse(p)
  \/ WaitForTransactionReceipt(p)
  \/ LogMetric(p)

NextConc == \E p \in Procs : Start(p) \/ StepConc(p)

SpecConc == InitConc /\ [][NextConc]_vars

(***************************************************************************)
(* Specification: two callers name different contracts with different      *)
(* names at the same time, one call each; their awaited calls interleave.  *)
(***************************************************************************)
RequestOf(p) ==
  [op |-> "nameContract", name |-> IF p = 1 THEN Name1 ELSE Name2,
   contractAddress |-> IF p = 1 THEN "0xaa" ELSE "0xbb",
   contractType |-> "Unknown", coinType |-> "undefined"]

\* Neither name is registered and neither contract has a record; both
\* contracts answer owner() alike.
InitApart ==
  /\ cfg \in Configs
  /\ ~Secondary /\ ~IsL2Path /\ ~cfg.enableMetrics
  /\ request = [p \in Procs |-> RequestOf(p)]
  /\ world \in Worlds(cfg, request[1])
  /\ world.contractOwner # OtherAccount
  /\ world.reverseNodeOwner = OtherAccount
  /\ registry = [n \in Names |-> IF n \in {Name1, Name2} THEN NoRecord ELSE ExistingRecord]
  /\ addrRecord = [n \in Names |-> [k \in RecordKeys |-> ZeroAddress]]
  /\ reverseName = [net \in {"primary", "secondary"} |->
                     [a \in {"0xaa", "0xbb", MalformedAddress} |-> ""]]
  /\ pc = [p \in Procs |-> "idle"]
  /\ phase = [p \in Procs |-> "Idle"]
  /\ local = [p \in Procs |-> NoLocal]
  /\ txs = [p \in Procs |-> <<>>]
  /\ transactions = [p \in Procs |-> NoTransactions]
  /\ result = [p \in Procs |-> NoResult]
  /\ metrics = [p \in Procs |-> <<>>]
  /\ pre = [p \in Procs |-> [exists |-> FALSE, addr |-> [k \in RecordKeys |-> ZeroAddress],
                              reverse |-> [net \in {"primary", "secondary"} |-> ""]]]
  /\ prev = [p \in Procs |-> NoPrev]
  /\ calls = [p \in Procs |-> MaxCalls - 1]
  /\ onchain = [p \in Procs |-> FALSE]

SpecApart == InitApart /\ [][NextConc]_vars

(***************************************************************************)
(* Specification: parseNormalizedName applied to every string of at most   *)
(* MaxLen characters; a string is the sequence of its characters.          *)
(***************************************************************************)
MaxLen == 4

Alphabet == {"a", "b", "."}

Strings == UNION { [1..n -> Alphabet] : n \in 0..MaxLen }

\* String.prototype.split(sep): the segments between the separators.
RECURSIVE split(_, _)
split(str, sep) ==
  IF \A i \in DOMAIN str : str[i] # sep THEN <<str>>
  ELSE LET i == CHOOSE k \in DOMAIN str : str[k] = sep /\ \A j \in 1..(k - 1) : str[j] # sep
       IN <<SubSeq(str, 1, i - 1)>> \o split(SubSeq(str, i + 1, Len(str)), sep)

\* Array.prototype.join(sep)
RECURSIVE join(_, _)
join(parts, sep) ==
  IF parts = <<>> THEN <<>>
  ELSE IF Len(parts) = 1 THEN parts[1]
  ELSE parts[1] \o <<sep>> \o join(Tail(parts), sep)

\* A variant taking the last segment as the label, used to test the
\* properties below.
parseLastLabel(str) ==
  LET parts == split(str, ".") IN
  IF Len(parts) < 2 THEN [label |-> <<>>, parent |-> <<>>, error |-> "InvalidNameFormat"]
  ELSE [label |-> parts[Len(parts)], parent |-> join(SubSeq(parts, 1, Len(parts) - 1), "."),
        error |-> ""]

\* parseNormalizedName on a string given by its characters.
parseString(str) ==
  LET parts == split(str, ".") IN
  IF Len(parts) < 2 THEN [label |-> <<>>, parent |-> <<>>, error |-> "InvalidNameFormat"]
  ELSE [label |-> parts[1], parent |-> join(Tail(parts), "."), error |-> ""]

InitParse ==
  /\ cfg = [variant |-> "stepwise", chainName |-> "sepolia", secondary |-> FALSE,
            coinType |-> "undefined", enableMetrics |-> FALSE]
  /\ \E str \in Strings :
       request = [p \in Procs |-> [op |-> "parseNormalizedName", name |-> str,
                                   contractAddress |-> "0xaa", contractType |-> "Unknown",
                                   coinType |-> "undefined"]]
  /\ world = [wrapped |-> FALSE, contractOwner |-> "revert", reverseNodeOwner |-> OtherAccount,
              l2ContractOwner |-> "revert", parentResolver |-> "PUBLIC_RESOLVER"]
  /\ registry = [n \in Names |-> ExistingRecord]
  /\ addrRecord = [n \in Names |-> [k \in RecordKeys |-> ZeroAddress]]
  /\ reverseName = [net \in {"primary", "secondary"} |->
                     [a \in {"0xaa", "0xbb", MalformedAddress} |-> ""]]
  /\ pc = [p \in Procs |-> "idle"]
  /\ phase = [p \in Procs |-> "Idle"]
  /\ local = [p \in Procs |-> NoLocal]
  /\ txs = [p \in Procs |-> <<>>]
  /\ transactions = [p \in Procs |-> NoTransactions]
  /\ result = [p \in Procs |-> NoResult]
  /\ metrics = [p \in Procs |-> <<>>]
  /\ pre = [p \in Procs |-> [exists |-> FALSE, addr |-> [k \in RecordKeys |-> ZeroAddress],
                              reverse |-> [net \in {"primary", "secondary"} |-> ""]]]
  /\ prev = [p \in Procs |-> NoPrev]
  /\ calls = [p \in Procs |-> 0]
  /\ onchain = [p \in Procs |-> FALSE]

\* The call returns { label, parent } or throws.
ParseName(p) ==
  /\ pc[p] = "idle"
  /\ Req(p).op = "parseNormalizedName"
  /\ LET parsed == parseString(Req(p).name) IN
     /\ result' = [result EXCEPT ![p] = parsed]
     /\ pc' = [pc EXCEPT ![p] = IF parsed.error = "" THEN "done" ELSE "failed"]
  /\ UNCHANGED <<cfg, request, world, chainVars, phase, local, txs, transactions,
                 metrics, pre, prev, calls, onchain>>

NextParse == ParseName(1)

SpecParse == InitParse /\ [][NextParse]_vars

(***************************************************************************)
(* Specification: one caller repeats a nameContract request on an L1       *)
(* chain, and between two calls the ownership of the contract and of its   *)
(* reverse node may change on the chain.                                   *)
(***************************************************************************)
InitChanging ==
  /\ InitWith(0)
  /\ request[1].op = "nameContract"
  /\ WellFormed(request[1])
  /\ ~Secondary /\ ~IsL2Path

\* Between two calls the contract gets another owner() answer and its
\* reverse node another owner.
TransferOwnership ==
  /\ pc[1] \in {"done", "failed"}
  /\ calls[1] < MaxCalls
  /\ \E o \in {"revert", AccountAddress, OtherAccount}, r \in {AccountAddress, OtherAccount} :
       /\ <<o, r>> # <<world.contractOwner, world.reverseNodeOwner>>
       /\ world' = [world EXCEPT !.contractOwner = o, !.reverseNodeOwner = r]
  /\ UNCHANGED <<cfg, request, chainVars, pc, phase, local, txs, transactions, result,
                 metrics, pre, prev, calls, onchain>>

NextChanging == Start(1) \/ StepConc(1) \/ TransferOwnership

SpecChanging == InitChanging /\ [][NextChanging]_vars

TypeOK ==
  /\ \A p \in Procs : local[p].contractType \in ContractTypes
  /\ \A p \in Procs : calls[p] \in 0..MaxCalls

(***************************************************************************)
(* Properties.                                                             *)
(***************************************************************************)
Ended(p) == pc[p] \in {"done", "failed"}

Running(p) == pc[p] \notin {"idle", "done", "failed"}

\* The writeContract calls of step ph in the current call of p.
StepTxs(p, ph) == { i \in DOMAIN txs[p] : txs[p][i].step = ph }

\* The position of a step in the order of nameContract.
Rank(ph) ==
  CASE ph = "Idle" -> 0
    [] ph = "Detecting" -> 1
    [] ph = "RegisteringSubname" -> 2
    [] ph = "SettingForward" -> 3
    [] ph = "SettingReverse" -> 4
    [] ph = "MirroringForward" -> 5
    [] ph = "MirroringReverse" -> 6
    [] OTHER -> 7

\* C1: a nameContract call takes its steps in the order detect, subname,
\* forward, reverse, (secondary forward, secondary reverse), Done: while the
\* call runs, the step it is in never moves back to an earlier one (so no
\* step is attempted twice), and the secondary steps are entered only when
\* secondary targets are supplied.
C1_FixedStepOrder ==
  [][\A p \in Procs :
       (Req(p).op = "nameContract" /\ Running(p)) =>
         /\ Rank(phase'[p]) >= Rank(phase[p])
         /\ (phase'[p] \in {"MirroringForward", "MirroringReverse"} => Secondary)]_vars

\* C2: when nameContract has returned a result, the forward record of the
\* name (the record of the configured resolver that the request addresses:
\* the default one, or the coin-type one on an L2 chain) equals the contract
\* address case-insensitively, and if the result carries a reverseResolution
\* transaction the reverse record of the contract address is the name.
C2_RecordsOnReturn ==
  \A p \in Procs :
    (Req(p).op = "nameContract" /\ pc[p] = "done") =>
      /\ SameAddress(addrRecord[Req(p).name][PrimaryForwardKey(Req(p))], Req(p).contractAddress)
      /\ result[p].transactions.reverseResolution # 0 =>
           reverseName["primary"][ReverseNode(Req(p).contractAddress)] = Req(p).name

C2_Witness ==
  /\ Req(1).op = "nameContract" /\ pc[1] = "done"
  /\ result[1].transactions.forwardResolution # 0
  /\ result[1].transactions.reverseResolution # 0
  /\ pre[1].addr[PrimaryForwardKey(Req(1))] = "0xbb"

\* C3: createSubname for a name that does not exist returns created=true
\* with the hash of a mined transaction; the call that follows a call that
\* created the name returns created=false and calls no writeContract.
C3_SubnameTwice ==
  \A p \in Procs :
    (Req(p).op = "createSubname" /\ pc[p] = "done") =>
      /\ ~pre[p].exists =>
           /\ result[p].performed
           /\ result[p].transactionHash \in DOMAIN txs[p]
           /\ txs[p][result[p].transactionHash].status = "confirmed"
      /\ (prev[p].status = "done" /\ prev[p].result.performed) =>
           /\ ~result[p].performed
           /\ result[p].transactionHash = 0
           /\ txs[p] = <<>>

C3_Witness ==
  /\ Req(1).op = "createSubname" /\ pc[1] = "done"
  /\ prev[1].status = "done" /\ prev[1].result.performed
  /\ ~result[1].performed

\* C4: setForwardResolution starting from a record that differs from the
\* target returns set=true with the hash of a mined transaction; the call
\* with the same name, target and coinType that follows a call that set the
\* record returns set=false and calls no writeContract.
C4_ForwardTwice ==
  \A p \in Procs :
    (Req(p).op = "setForwardResolution" /\ pc[p] = "done") =>
      /\ ~SameAddress(pre[p].addr[PrimaryForwardKey(Req(p))], Req(p).contractAddress) =>
           /\ result[p].performed
           /\ result[p].transactionHash \in DOMAIN txs[p]
           /\ txs[p][result[p].transactionHash].status = "confirmed"
      /\ (prev[p].status = "done" /\ prev[p].result.performed) =>
           /\ ~result[p].performed
           /\ result[p].transactionHash = 0
           /\ txs[p] = <<>>

C4_Witness ==
  /\ Req(1).op = "setForwardResolution" /\ pc[1] = "done"
  /\ Req(1).contractAddress = "0xAa" /\ Req(1).coinType = "60"
  /\ prev[1].status = "done" /\ prev[1].result.performed
  /\ ~result[1].performed

\* The records a nameContract request asks for were all in place when the
\* current call of p started.
Satisfied(p) ==
  /\ pre[p].exists
  /\ SameAddress(pre[p].addr[PrimaryForwardKey(Req(p))], Req(p).contractAddress)
  /\ pre[p].reverse["primary"] = Req(p).name
  /\ Secondary =>
       /\ SameAddress(pre[p].addr[Number(cfg.coinType)], Req(p).contractAddress)
       /\ pre[p].reverse["secondary"] = Req(p).name

\* C5: a nameContract call that follows a call with the same request which
\* returned its result, and that finds every record it asks for in place,
\* calls no writeContract at all, not even for reverse resolution.
C5_SecondCallSubmitsNothing ==
  \A p \in Procs :
    (Req(p).op = "nameContract" /\ prev[p].status = "done" /\ Satisfied(p)) =>
      Submitted(p) = {}

\* The caller is not the owner of the target contract: neither owner() nor
\* the owner of its reverse node is the caller's account.
NotOwner(p) ==
  /\ ~SameAddress(world.contractOwner, AccountAddress)
  /\ ~SameAddress(world.reverseNodeOwner, AccountAddress)

\* C6: setReverseResolution called by an account that is not the owner
\* ends by returning set=false with reason "not_owner" and calls no
\* writeContract, whatever the contract type and whatever the ownership
\* reads do.
C6_NonOwnerAlwaysSkipped ==
  \A p \in Procs :
    (Req(p).op = "setReverseResolution" /\ NotOwner(p)) =>
      /\ Submitted(p) = {}
      /\ Ended(p) => (pc[p] = "done" /\ result[p] = StepResult(0, "not_owner"))

\* The reverse write setReverseResolution is to make for a contract type.
RightReverseWrite(p, tx, type) ==
  /\ tx.client = "primary"
  /\ tx.args.value = Req(p).name
  /\ type = "ReverseClaimer" =>
       /\ tx.to = "PUBLIC_RESOLVER" /\ tx.fn = "setName"
       /\ tx.args.node = ReverseNode(Req(p).contractAddress)
  /\ type = "Ownable" =>
       /\ tx.to = "REVERSE_REGISTRAR" /\ tx.fn = "setNameForAddr"
       /\ tx.args.node = Req(p).contractAddress
  /\ type \in {"ReverseClaimer", "Ownable"}

\* C7: in the reverse step (setReverseResolution on its own or within
\* nameContract), once the caller is confirmed owner of a ReverseClaimer or
\* Ownable contract exactly one writeContract call is made, and it is the
\* write of the contract's type: setName on the resolver for the reverse node
\* of the address, or setNameForAddr on the reverse registrar for the
\* address; without the confirmation none is made.
C7_OneWriteByType ==
  \A p \in Procs :
    LET rev == StepTxs(p, "SettingReverse")
        type == local[p].contractType
        past == phase[p] # "SettingReverse" \/ pc[p] \notin {"owner", "rev_owner", "write_rev"}
    IN /\ \A i \in rev : RightReverseWrite(p, txs[p][i], type)
       /\ Cardinality(rev) <= 1
       /\ (local[p].isOwner /\ past /\ type \in {"ReverseClaimer", "Ownable"}) =>
            Cardinality(rev) = 1
       /\ ~local[p].isOwner => rev = {}

C7_Witness ==
  /\ Req(1).op = "setReverseResolution" /\ pc[1] = "done"
  /\ local[1].isOwner /\ local[1].contractType = "ReverseClaimer"
  /\ result[1].performed
  /\ txs[1][result[1].transactionHash].fn = "setName"

\* C8 as stated: setReverseResolution with contract type Unknown ends with
\* the unsupported-contract-type error and calls no writeContract.
C8_UnknownAlwaysFails ==
  \A p \in Procs :
    (Req(p).op = "setReverseResolution" /\ Req(p).contractType = "Unknown") =>
      /\ Submitted(p) = {}
      /\ Ended(p) => (pc[p] = "failed" /\ local[p].error = "UnsupportedContractType")

\* C8: setReverseResolution with contract type Unknown calls no
\* writeContract; when the caller is confirmed owner it ends with the
\* unsupported-contract-type error, and when the ownership check answers
\* no it returns set=false with reason "not_owner".
C8_UnknownFailsForOwner ==
  \A p \in Procs :
    (Req(p).op = "setReverseResolution" /\ Req(p).contractType = "Unknown") =>
      /\ txs[p] = <<>>
      /\ (Ended(p) /\ local[p].isOwner) =>
           (pc[p] = "failed" /\ local[p].error = "UnsupportedContractType")
      /\ pc[p] = "done" => (~local[p].isOwner /\ result[p] = StepResult(0, "not_owner"))

C8_Witness ==
  /\ Req(1).op = "setReverseResolution" /\ Req(1).contractType = "Unknown"
  /\ local[1].isOwner /\ pc[1] = "failed"
  /\ local[1].error = "UnsupportedContractType"

\* The target was classified Ownable and its owner() is the caller's account.
OwnedOwnable(p) ==
  /\ local[p].contractType = "Ownable"
  /\ SameAddress(world.contractOwner, AccountAddress)

\* C9: scenario A. A nameContract call that found the name unregistered
\* under an unwrapped parent, for a target classified Ownable whose owner
\* is the caller, and in which no awaited call threw, returns success=true
\* with the subname, forwardResolution and reverseResolution entries in its
\* transactions map (the first two are there whenever it returns).
C9_ScenarioA ==
  \A p \in Procs :
    (Req(p).op = "nameContract" /\ Ended(p) /\ ~pre[p].exists /\ ~world.wrapped
       /\ OwnedOwnable(p)) =>
      /\ pc[p] = "done" =>
           /\ result[p].success
           /\ result[p].transactions.subname # 0
           /\ result[p].transactions.forwardResolution # 0
      /\ ~local[p].faulted =>
           /\ pc[p] = "done"
           /\ result[p].transactions.reverseResolution # 0

C9_Witness ==
  /\ Req(1).op = "nameContract" /\ pc[1] = "done" /\ ~pre[1].exists /\ ~world.wrapped
  /\ OwnedOwnable(1) /\ ~local[1].faulted
  /\ result[1].success
  /\ result[1].transactions.subname # 0
  /\ result[1].transactions.forwardResolution # 0
  /\ result[1].transactions.reverseResolution # 0

\* C10: scenario B. A nameContract call that found the name registered and
\* its forward record equal to the contract address, for a target classified
\* Ownable whose owner is the caller, returns a transactions map without
\* subname and forwardResolution entries; when no awaited call threw it
\* returns, and the map has the reverseResolution entry.
C10_ScenarioB ==
  \A p \in Procs :
    (Req(p).op = "nameContract" /\ Ended(p) /\ pre[p].exists
       /\ SameAddress(pre[p].addr[PrimaryForwardKey(Req(p))], Req(p).contractAddress)
       /\ OwnedOwnable(p)) =>
      /\ pc[p] = "done" =>
           /\ result[p].transactions.subname = 0
           /\ result[p].transactions.forwardResolution = 0
      /\ ~local[p].faulted =>
           /\ pc[p] = "done"
           /\ result[p].transactions.reverseResolution # 0

C10_Witness ==
  /\ Req(1).op = "nameContract" /\ pc[1] = "done" /\ pre[1].exists
  /\ SameAddress(pre[1].addr[PrimaryForwardKey(Req(1))], Req(1).contractAddress)
  /\ OwnedOwnable(1) /\ ~local[1].faulted
  /\ result[1].transactions.subname = 0
  /\ result[1].transactions.forwardResolution = 0
  /\ result[1].transactions.reverseResolution # 0

\* C11: scenario C. A nameContract call for a well-formed request that
\* classified the contract Unknown, and in which no awaited call threw, ends
\* in the reverse-resolution step (subname and forward done) with the
\* unsupported-contract-type error.
C11_UnknownFailsAtReverse ==
  \A p \in Procs :
    (Req(p).op = "nameContract" /\ WellFormed(Req(p)) /\ Ended(p)
       /\ ~local[p].faulted /\ local[p].contractType = "Unknown") =>
      /\ pc[p] = "failed"
      /\ phase[p] = "SettingReverse"
      /\ local[p].error = "UnsupportedContractType"

\* C12: scenario D. With a secondary network supplied, nothing that goes
\* wrong in the secondary reverse sub-step (owner() reverting or throwing,
\* the write rejected, the receipt wait throwing) reaches the caller: the
\* call never fails in that sub-step, and once a failure was caught there
\* nameContract returns success=true without an l2ReverseResolution entry.
C12_SecondaryReverseCaught ==
  \A p \in Procs :
    Req(p).op = "nameContract" =>
      /\ phase[p] = "MirroringReverse" => pc[p] # "failed"
      /\ local[p].caught =>
           /\ Secondary /\ pc[p] = "done"
           /\ result[p].success
           /\ result[p].transactions.l2ReverseResolution = 0

C12_Witness ==
  /\ Req(1).op = "nameContract" /\ pc[1] = "done" /\ local[1].caught
  /\ result[1].success /\ result[1].transactions.l2ReverseResolution = 0
  /\ \E i \in StepTxs(1, "MirroringReverse") : txs[1][i].status = "dropped"

\* The error a failed call rejected with tells which step ph failed.
Identifies(loc, ph) ==
  \/ loc.error = "UnsupportedContractType" /\ ph = "SettingReverse"
  \/ loc.error = "InvalidNameFormat" /\ ph = "RegisteringSubname"
  \/ /\ loc.error = "ChainCallFailure"
     /\ \/ loc.call \in {"recordExists", "isWrapped", "resolver", "setSubnodeRecord"}
              /\ ph = "RegisteringSubname"
        \/ loc.call \in {"addr", "setAddr"} /\ ph \in {"SettingForward", "MirroringForward"}
        \/ loc.call \in {"owner", "setName"} /\ ph = "SettingReverse"

\* The record a mined transaction of the current call asked for is in place.
InEffect(p, tx) ==
  CASE tx.fn = "setSubnodeRecord" -> registry[tx.subject] # NoRecord
    [] tx.fn = "setAddr" -> SameAddress(addrRecord[tx.subject][tx.args.key], tx.args.value)
    [] OTHER -> reverseName[tx.client][ReverseNode(tx.subject)] = tx.args.value

\* C13: when a nameContract call has failed, no call of a later step was
\* made, the error it rejected with tells which step failed, and what the
\* mined transactions of the earlier steps set is still in place.
C13_FatalFailureNamesStep ==
  \A p \in Procs :
    (Req(p).op = "nameContract" /\ pc[p] = "failed") =>
      /\ \A i \in DOMAIN txs[p] : Rank(txs[p][i].step) <= Rank(phase[p])
      /\ Identifies(local[p], phase[p])
      /\ \A i \in DOMAIN txs[p] :
           txs[p][i].status \in {"confirmed", "late"} => InEffect(p, txs[p][i])

\* C14: within one call a transaction that was submitted and whose receipt
\* has not come back is the last one submitted and the call is waiting for
\* its receipt; whenever the call is at any other awaited call, every
\* transaction it submitted so far is confirmed. So a call never has two
\* transactions submitted and unconfirmed.
C14_ReceiptAwaited ==
  \A p \in Procs :
    LET pending == { i \in DOMAIN txs[p] : txs[p][i].status = "submitted" } IN
    /\ Cardinality(pending) <= 1
    /\ pending # {} => (pc[p] = "receipt" /\ pending = {Len(txs[p])})
    /\ (Running(p) /\ pc[p] # "receipt") =>
         \A i \in DOMAIN txs[p] : txs[p][i].status = "confirmed"

C14_Witness ==
  /\ Req(1).op = "nameContract" /\ pc[1] = "receipt" /\ phase[1] = "SettingReverse"
  /\ Len(txs[1]) = 3
  /\ txs[1][1].status = "confirmed" /\ txs[1][2].status = "confirmed"
  /\ txs[1][3].status = "submitted"

\* The contract answers both probes: owner() returns and the caller owns
\* its reverse node.
BothProbes ==
  /\ world.contractOwner # "revert"
  /\ SameAddress(world.reverseNodeOwner, AccountAddress)

\* C15: a contract that answers both probes is classified the same by
\* every detectContractType of the code base: whatever build classified it
\* (no read having thrown), the type is the one each of the three functions
\* returns for it.
C15_OneDetectionOrder ==
  \A p \in Procs :
    (Req(p).op = "nameContract" /\ WellFormed(Req(p)) /\ BothProbes
       /\ ~local[p].faulted /\ local[p].contractType # "Unknown") =>
      \A v \in Variants : local[p].contractType = DetectOrderOf(v)[1]

Steps ==
  {"RegisteringSubname", "SettingForward", "SettingReverse", "MirroringForward",
   "MirroringReverse"}

\* C16: in the result of nameContract the entry of a step is present
\* exactly when the step submitted a transaction, and the entry names a
\* transaction of that step that was submitted and confirmed.
C16_EntriesMatchTransactions ==
  \A p \in Procs :
    (Req(p).op = "nameContract" /\ pc[p] = "done") =>
      \A ph \in Steps :
        LET hash == result[p].transactions[StepKey(ph)] IN
        /\ hash # 0 <=> (\E i \in Submitted(p) : txs[p][i].step = ph)
        /\ hash # 0 => (txs[p][hash].step = ph /\ txs[p][hash].status = "confirmed")

\* C17: a logMetric call that throws never makes the step function or
\* nameContract fail: no call ends with the telemetry error, and a step whose
\* transaction was confirmed reports it whatever logMetric did.
C17_TelemetryNeverFails ==
  \A p \in Procs :
    /\ pc[p] = "failed" => local[p].error # "TelemetryFailure"
    /\ (Req(p).op = "nameContract" /\ pc[p] = "done") =>
         \A i \in DOMAIN txs[p] :
           txs[p][i].status = "confirmed" =>
             result[p].transactions[StepKey(txs[p][i].step)] = i

\* C18: a nameContract call whose contract address is malformed or whose
\* name has no parent segment issues no contract read and no contract write,
\* and ends with an error.
C18_InvalidInputNoCalls ==
  \A p \in Procs :
    (Req(p).op = "nameContract" /\ ~WellFormed(Req(p))) =>
      /\ ~onchain[p]
      /\ Ended(p) => pc[p] = "failed"

\* C19: a nameContract call for a well-formed request by a caller who is
\* not the owner never makes a reverse write; when no awaited call threw it
\* returns, and whenever it returns the result has success=true, no
\* reverseResolution entry, and the name is registered with its forward
\* record set to the contract address.
C19_NotOwnerIsSkipped ==
  \A p \in Procs :
    (Req(p).op = "nameContract" /\ WellFormed(Req(p)) /\ NotOwner(p)) =>
      /\ StepTxs(p, "SettingReverse") = {}
      /\ (Ended(p) /\ ~local[p].faulted) => pc[p] = "done"
      /\ pc[p] = "done" =>
           /\ result[p].success
           /\ result[p].transactions.reverseResolution = 0
           /\ registry[Req(p).name] # NoRecord
           /\ SameAddress(addrRecord[Req(p).name][PrimaryForwardKey(Req(p))],
                          Req(p).contractAddress)

C19_Witness ==
  /\ Req(1).op = "nameContract" /\ NotOwner(1) /\ pc[1] = "done"
  /\ ~local[1].faulted /\ ~local[1].isOwner
  /\ local[1].contractType = "Ownable"
  /\ result[1].success
  /\ result[1].transactions.subname # 0
  /\ result[1].transactions.forwardResolution # 0
  /\ result[1].transactions.reverseResolution = 0

\* C20: the existence check does not prevent a duplicate creation. A call
\* that read "does not exist" and has reached its setSubnodeRecord write
\* makes that write even when another caller's creation of the same name has
\* landed in between: its step from there always is a writeContract call of
\* setSubnodeRecord for the name. (The witness is a state in which two
\* concurrent calls that both found the name unregistered both had a
\* creation transaction for it mined.)
C20_StaleReadStillWrites ==
  [][\A p \in Procs :
       (pc[p] = "write_sub" /\ registry[Req(p).name] # NoRecord /\ pc'[p] # "write_sub") =>
         /\ Len(txs'[p]) = Len(txs[p]) + 1
         /\ txs'[p][Len(txs'[p])].fn = "setSubnodeRecord"
         /\ txs'[p][Len(txs'[p])].subject = Req(p).name]_vars

C20_Witness ==
  /\ Req(1).name = Req(2).name
  /\ \A p \in Procs :
       /\ ~pre[p].exists /\ ~local[p].nameExists
       /\ \E i \in DOMAIN txs[p] :
            /\ txs[p][i].fn = "setSubnodeRecord"
            /\ txs[p][i].subject = Req(p).name
            /\ txs[p][i].status = "confirmed"
\* The transactions of p's current call with function fn that were mined.
Mined(p, fns) ==
  { i \in DOMAIN txs[p] : txs[p][i].fn \in fns /\ txs[p][i].status \in {"confirmed", "late"} }

\* C21: two nameContract calls for different names and different contract
\* addresses, started from unregistered names and interleaved in any way, do
\* not interfere: at every moment the registry record, the forward record
\* and the reverse record of a caller's own name and address are exactly
\* what that caller's own mined transactions made them, and a call that
\* returns reports what a call run alone reports (subname and forward
\* transactions, a reverse transaction exactly when its ownership check
\* passed).
C21_NoInterference ==
  \A p \in Procs :
    LET r == Req(p) IN
    /\ (registry[r.name] # NoRecord) <=> (Mined(p, {"setSubnodeRecord"}) # {})
    /\ addrRecord[r.name]["default"] =
         (IF Mined(p, {"setAddr"}) # {} THEN ToLowerCase(r.contractAddress) ELSE ZeroAddress)
    /\ reverseName["primary"][ReverseNode(r.contractAddress)] =
         (IF Mined(p, {"setName", "setNameForAddr"}) # {} THEN r.name ELSE "")
    /\ pc[p] = "done" =>
         /\ result[p].transactions.subname # 0
         /\ result[p].transactions.forwardResolution # 0
         /\ (result[p].transactions.reverseResolution # 0) <=> local[p].isOwner

C21_Witness ==
  /\ Req(1).name # Req(2).name /\ Req(1).contractAddress # Req(2).contractAddress
  /\ pc[1] = "done" /\ result[1].transactions.reverseResolution # 0
  /\ phase[2] = "SettingReverse" /\ pc[2] = "receipt"
  /\ addrRecord[Name2]["default"] = "0xbb"

\* The forward record the secondary-network phase reads and writes.
SecondaryForwardKey ==
  IF cfg.variant = "inline" \/ Truthy(Number(cfg.coinType)) THEN Number(cfg.coinType)
  ELSE "default"

\* C22: nameContract is resumable. When a well-formed request failed and
\* the same request is made again and ends without any awaited call
\* throwing, the second call returns a result; it submits no subname
\* transaction if the name existed when it started and no forward
\* transaction if the forward record already matched; and it leaves the
\* state an uninterrupted call leaves: the name registered, the forward
\* record equal to the contract address, the reverse record equal to the
\* name when the ownership check passed, and the secondary records set when
\* a secondary network is configured.
C22_Resumable ==
  \A p \in Procs :
    LET r == Req(p)
        node == ReverseNode(r.contractAddress) IN
    (r.op = "nameContract" /\ WellFormed(r) /\ prev[p].status = "failed"
       /\ Ended(p) /\ ~local[p].faulted) =>
      /\ pc[p] = "done"
      /\ pre[p].exists => StepTxs(p, "RegisteringSubname") = {}
      /\ SameAddress(pre[p].addr[PrimaryForwardKey(r)], r.contractAddress)
           => StepTxs(p, "SettingForward") = {}
      /\ registry[r.name] # NoRecord
      /\ SameAddress(addrRecord[r.name][PrimaryForwardKey(r)], r.contractAddress)
      /\ local[p].isOwner => reverseName["primary"][node] = r.name
      /\ Secondary =>
           /\ SameAddress(addrRecord[r.name][SecondaryForwardKey], r.contractAddress)
           /\ world.l2ContractOwner # "revert" => reverseName["secondary"][node] = r.name

\* The first call created the name under a wrapped parent and failed at a
\* later step; the second call skipped the subname step, set the forward
\* and reverse records and returned.
C22_Witness ==
  /\ Req(1).op = "nameContract" /\ prev[1].status = "failed"
  /\ pc[1] = "done" /\ ~local[1].faulted
  /\ world.wrapped /\ pre[1].exists
  /\ result[1].transactions.subname = 0
  /\ result[1].transactions.forwardResolution # 0
  /\ result[1].transactions.reverseResolution # 0

\* The setSubnodeRecord calls of p's current call that were sent.
CreationWrites(p) == { i \in Submitted(p) : txs[p][i].fn = "setSubnodeRecord" }

\* C23: a createSubname step submits at most one creation write, exactly
\* one when it returns for a name that did not exist, and the write goes to
\* the name wrapper exactly when the parent is wrapped and to the base
\* registry otherwise.
C23_CreationTargetByWrapping ==
  \A p \in Procs :
    /\ Cardinality(CreationWrites(p)) <= 1
    /\ (Req(p).op = "createSubname" /\ pc[p] = "done" /\ ~pre[p].exists)
         => Cardinality(CreationWrites(p)) = 1
    /\ \A i \in CreationWrites(p) :
         txs[p][i].to = (IF world.wrapped THEN "NAME_WRAPPER" ELSE "ENS_REGISTRY")

\* C24: every creation write asks for the same record whatever the write
\* path and the variant: the caller's account as owner, the configured
\* default resolver of the contract set as resolver, and zero for the
\* remaining arguments (TTL; or TTL, fuses and expiry).
C24_SameRecordRequested ==
  \A p \in Procs :
    \A i \in CreationWrites(p) :
      /\ txs[p][i].args.owner = AccountAddress
      /\ txs[p][i].args.resolver = "PUBLIC_RESOLVER"
      /\ txs[p][i].args.zeros \in {"0", "0,0,0"}

\* C25: the detection probes never raise. A nameContract call never fails
\* while it is detecting the contract type, whatever the address and
\* whatever the reads do; the type it works with is one of the three types;
\* an invalid or empty address is classified Unknown; and a type other than
\* Unknown is answered only when the read behind it returned: Ownable when
\* owner() does not revert, ReverseClaimer when the registry names the
\* caller as owner of the reverse node.
C25_ProbesNeverRaise ==
  \A p \in Procs :
    Req(p).op = "nameContract" =>
      /\ phase[p] = "Detecting" => pc[p] \in {"detect_rc", "detect_own"}
      /\ local[p].contractType \in ContractTypes
      /\ (isAddressEmpty(Req(p).contractAddress) \/ ~isAddressValid(Req(p).contractAddress))
           => local[p].contractType = "Unknown"
      /\ local[p].contractType = "Ownable" => world.contractOwner # "revert"
      /\ local[p].contractType = "ReverseClaimer" => world.reverseNodeOwner = AccountAddress

\* Both probes were asked about an Ownable contract, a read threw, and the
\* call went on to its next step with the type Unknown.
C25_Witness ==
  /\ Req(1).op = "nameContract" /\ cfg.variant = "chainName"
  /\ phase[1] = "RegisteringSubname" /\ pc[1] = "exists"
  /\ local[1].faulted /\ local[1].contractType = "Unknown"
  /\ world.contractOwner = AccountAddress

\* C26: isContractOwner asks the registry for the owner of the reverse
\* node only when its owner() read threw. For a valid address: when owner()
\* reverts the registry is asked; the registry is asked only if owner()
\* reverts or the read failed; when owner() returns, the answer is whether
\* the returned address is the caller's account, compared without case,
\* whatever the registry holds; and when the registry is asked and
\* answers, the answer is whether the owner of the reverse node is the
\* caller's account.
C26_RegistryOnlyAfterOwnerThrows ==
  [][\A p \in Procs :
       /\ (pc[p] = "owner" /\ pc'[p] # "owner" /\ isAddressValid(Req(p).contractAddress)) =>
            /\ world.contractOwner = "revert" => pc'[p] = "rev_owner"
            /\ pc'[p] = "rev_owner" =>
                 (world.contractOwner = "revert" \/ local'[p].faulted)
            /\ pc'[p] # "rev_owner" =>
                 local'[p].isOwner = (ToLowerCase(world.contractOwner) = ToLowerCase(AccountAddress))
       /\ (pc[p] = "rev_owner" /\ pc'[p] # "rev_owner" /\ local'[p].error # "ChainCallFailure") =>
            local'[p].isOwner = (ToLowerCase(world.reverseNodeOwner) = ToLowerCase(AccountAddress))]_vars

\* owner() returned another account while the registry names the caller as
\* owner of the reverse node: the step was skipped as not owned.
C26_Witness ==
  /\ Req(1).op = "setReverseResolution" /\ pc[1] = "done"
  /\ result[1].reason = "not_owner" /\ ~local[1].faulted
  /\ world.contractOwner = OtherAccount /\ world.reverseNodeOwner = AccountAddress

C28_SkipIffSameIgnoringCase ==
  \A p \in Procs :
    Req(p).op = "setForwardResolution" =>
      LET same == ToLowerCase(pre[p].addr[PrimaryForwardKey(Req(p))])
                    = ToLowerCase(Req(p).contractAddress) IN
      /\ Len(txs[p]) <= 1
      /\ same => txs[p] = <<>>
      /\ pc[p] = "done" => (result[p].performed <=> ~same)
      /\ (pc[p] = "done" /\ ~same) => Len(txs[p]) = 1

\* The record held the target in another capitalisation and the first call
\* skipped the write.
C28_Witness ==
  /\ Req(1).op = "setForwardResolution" /\ pc[1] = "done" /\ calls[1] = 1
  /\ ~result[1].performed /\ txs[1] = <<>>
  /\ pre[1].addr[PrimaryForwardKey(Req(1))] # Req(1).contractAddress
  /\ pre[1].addr[PrimaryForwardKey(Req(1))] # ZeroAddress

\* C29: in the secondary-network phase of nameContract every forward write
\* is a setAddr sent with the primary client to the primary network's
\* resolver, and every reverse write is a setNameForAddr sent with the
\* secondary client to the secondary network's L2_REVERSE_REGISTRAR; the
\* phase makes no other write.
C29_SecondaryPhaseTargets ==
  \A p \in Procs :
    \A i \in DOMAIN txs[p] :
      LET tx == txs[p][i] IN
      /\ tx.step = "MirroringForward" =>
           tx.client = "primary" /\ tx.to = "PUBLIC_RESOLVER" /\ tx.fn = "setAddr"
      /\ tx.step = "MirroringReverse" =>
           /\ tx.client = "secondary" /\ tx.to = "L2_REVERSE_REGISTRAR"
           /\ tx.fn = "setNameForAddr"
      /\ tx.client = "secondary" => tx.step = "MirroringReverse"

C29_Witness ==
  /\ Req(1).op = "nameContract" /\ pc[1] = "done" /\ Secondary
  /\ result[1].transactions.l2ForwardResolution # 0
  /\ result[1].transactions.l2ReverseResolution # 0
  /\ reverseName["secondary"][ReverseNode(Req(1).contractAddress)] = Req(1).name

\* C30: with enableMetrics false (the default) no step of nameContract
\* posts a telemetry event; with enableMetrics true every event posted
\* belongs to a write whose receipt has returned, no write has two events,
\* and every transaction in the result of a returned call has its event.
C30_TelemetryOnlyWhenEnabled ==
  \A p \in Procs :
    Req(p).op = "nameContract" =>
      /\ ~cfg.enableMetrics => metrics[p] = <<>>
      /\ cfg.enableMetrics =>
           /\ \A j \in DOMAIN metrics[p] :
                /\ metrics[p][j].txn \in DOMAIN txs[p]
                /\ txs[p][metrics[p][j].txn].status = "confirmed"
                /\ \A k \in DOMAIN metrics[p] : metrics[p][k].txn = metrics[p][j].txn => k = j
           /\ pc[p] = "done" =>
                \A key \in StepKeys :
                  result[p].transactions[key] # 0 =>
                    \E j \in DOMAIN metrics[p] : metrics[p][j].txn = result[p].transactions[key]

\* C31: for every string with a dot parseNormalizedName returns a label
\* without a dot and a parent such that label, ".", parent in this order
\* spell the input (the label is the first segment and the parent the
\* remaining segments joined with dots); for every string without a dot it
\* throws the invalid-name error and returns nothing.
C31_ParseSplitsAtFirstDot ==
  LET str == Req(1).name IN
  (Req(1).op = "parseNormalizedName" /\ pc[1] # "idle") =>
    IF \E i \in DOMAIN str : str[i] = "."
    THEN /\ pc[1] = "done"
         /\ \A i \in DOMAIN result[1].label : result[1].label[i] # "."
         /\ result[1].label \o <<".">> \o result[1].parent = str
    ELSE /\ pc[1] = "failed"
         /\ result[1].error = "InvalidNameFormat"
         /\ result[1].label = <<>> /\ result[1].parent = <<>>

\* A name of three segments was parsed.
C31_Witness ==
  /\ Req(1).op = "parseNormalizedName" /\ pc[1] = "done"
  /\ Req(1).name = <<"a", ".", "b", ".">>
  /\ result[1].label = <<"a">> /\ result[1].parent = <<"b", ".">>

\* What the probes answer for the chain as it is, asked in the given order.
Classify(order) ==
  LET yes(type) == IF type = "Ownable" THEN world.contractOwner # "revert"
                   ELSE world.reverseNodeOwner = AccountAddress
  IN IF yes(order[1]) THEN order[1] ELSE IF yes(order[2]) THEN order[2] ELSE "Unknown"

\* C32: the contract type is derived by fresh probes in every nameContract
\* call: whenever a call returns without an awaited call having thrown, the
\* contractType of its result is what the probes answer for the ownership
\* on the chain at that call, whatever an earlier call returned.
C32_TypeDetectedPerRequest ==
  [][\A p \in Procs :
       (Req(p).op = "nameContract" /\ pc[p] # "done" /\ pc'[p] = "done" /\ ~local'[p].faulted)
         => result'[p].contractType = Classify(DetectOrder)]_vars

\* The first call returned ReverseClaimer; the second, made after the
\* reverse node changed hands, returned Ownable.
C32_Witness ==
  /\ Req(1).op = "nameContract" /\ pc[1] = "done" /\ ~local[1].faulted
  /\ prev[1].status = "done" /\ prev[1].result.contractType = "ReverseClaimer"
  /\ result[1].contractType = "Ownable"
  /\ world.reverseNodeOwner = OtherAccount

\* C33: in a nameContract call in which no awaited call has thrown, a
\* contract classified Unknown is never confirmed as owned by the caller:
\* the ownership check answers false, the unsupported-contract-type error
\* is not raised, no reverse write is made and the call goes on without a
\* reverseResolution entry.
C33_UnknownIsNeverOwned ==
  \A p \in Procs :
    (Req(p).op = "nameContract" /\ ~local[p].faulted /\ local[p].contractType = "Unknown") =>
      /\ ~local[p].isOwner
      /\ local[p].error # "UnsupportedContractType"
      /\ StepTxs(p, "SettingReverse") = {}
      /\ transactions[p].reverseResolution = 0
      /\ phase[p] = "SettingReverse" => pc[p] \in {"owner", "rev_owner"}

\* A contract without owner() whose reverse node belongs to someone else
\* was named: the call returned without a reverse transaction.
C33_Witness ==
  /\ Req(1).op = "nameContract" /\ WellFormed(Req(1))
  /\ pc[1] = "done" /\ ~local[1].faulted
  /\ result[1].contractType = "Unknown"
  /\ result[1].transactions.forwardResolution # 0
  /\ result[1].transactions.reverseResolution = 0

\* C34: the resolver a creation write records for the new name is the
\* contract the forward write of the same call is sent to, so when a call
\* that created the name and set its forward record returns, the resolver
\* registered for the name is the one holding the forward record.
C34_RegisteredResolverHoldsForward ==
  \A p \in Procs :
    /\ \A i \in CreationWrites(p) :
         \A j \in Submitted(p) :
           txs[p][j].fn = "setAddr" => txs[p][i].args.resolver = txs[p][j].to
    /\ (Req(p).op = "nameContract" /\ pc[p] = "done"
          /\ result[p].transactions.subname # 0
          /\ result[p].transactions.forwardResolution # 0)
         => registry[Req(p).name].resolver = txs[p][result[p].transactions.forwardResolution].to

\* C35: in the secondary-network reverse sub-step a reverse write is sent
\* only when owner(), read on the secondary network, returned the caller's
\* account: no such write is sent when it returned another account.
C35_SecondaryReverseOnlyByOwner ==
  \A p \in Procs :
    \A i \in Submitted(p) :
      txs[p][i].step = "MirroringReverse" =>
        ToLowerCase(world.l2ContractOwner) = ToLowerCase(AccountAddress)

\* C36: nameContract returns a result only when it has not thrown: a
\* result exists exactly when the call has returned, it has success=true
\* and the contractType the call detected, which is the type its reverse
\* write was chosen by (setName for ReverseClaimer, setNameForAddr for
\* Ownable); a call that failed has no result, neither at that moment nor
\* as seen by the next call.
C36_ResultOnlyOnSuccess ==
  \A p \in Procs :
    Req(p).op = "nameContract" =>
      /\ (result[p] # NoResult) <=> pc[p] = "done"
      /\ pc[p] = "done" =>
           /\ result[p].success
           /\ result[p].contractType = local[p].contractType
           /\ \A i \in StepTxs(p, "SettingReverse") :
                /\ txs[p][i].fn = "setName" <=> result[p].contractType = "ReverseClaimer"
                /\ txs[p][i].fn = "setNameForAddr" <=> result[p].contractType = "Ownable"
      /\ prev[p].status = "failed" => prev[p].result = NoResult

\* The first call threw and returned nothing; the second set the reverse
\* record of a ReverseClaimer contract and returned that type.
C36_Witness ==
  /\ Req(1).op = "nameContract" /\ pc[1] = "done"
  /\ prev[1].status = "failed" /\ prev[1].result = NoResult
  /\ result[1].contractType = "ReverseClaimer"
  /\ result[1].transactions.reverseResolution # 0

OwnForwardKeys(r) ==
  {PrimaryForwardKey(r)} \cup (IF r.op = "nameContract" /\ Secondary
                               THEN {SecondaryForwardKey} ELSE {})

\* C38: a call writes only to the records of its own request. No step
\* changes the registry record or a forward record of another name, a
\* forward record of the requested name other than the one(s) the request
\* addresses, or the reverse record of another address; and records change
\* only when a submitted transaction is mined, so a skipped step changes
\* nothing.
C38_OnlyOwnRecordsWritten ==
  [][LET r == Req(1) IN
     /\ \A n \in Names \ {r.name} :
          registry'[n] = registry[n] /\ addrRecord'[n] = addrRecord[n]
     /\ \A k \in RecordKeys \ OwnForwardKeys(r) :
          addrRecord'[r.name][k] = addrRecord[r.name][k]
     /\ \A net \in {"primary", "secondary"} :
          \A a \in DOMAIN reverseName[net] \ {ReverseNode(r.contractAddress)} :
            reverseName'[net][a] = reverseName[net][a]
     /\ chainVars' # chainVars =>
          /\ pc[1] = "receipt"
          /\ txs'[1][local[1].txn].status \in {"confirmed", "late"}]_vars

\* A call created the name and set both of its records; the records of the
\* other name and the other contract are as they were.
C38_Witness ==
  /\ Req(1).op = "nameContract" /\ pc[1] = "done"
  /\ result[1].transactions.subname # 0
  /\ result[1].transactions.forwardResolution # 0
  /\ result[1].transactions.reverseResolution # 0
  /\ registry[Name2] = ExistingRecord
  /\ addrRecord[Name2]["default"] = "0xbb"
  /\ reverseName["primary"]["0xbb"] = Name2

\* C39: when two nameContract calls for the same name and the same contract
\* address, running at the same time, have both returned, the forward
\* record of the name equals the contract address, whether one of them or
\* both sent a forward write.
C39_ConcurrentForwardConverges ==
  (\A p \in Procs : Req(p).op = "nameContract" /\ pc[p] = "done") =>
    ToLowerCase(addrRecord[Req(1).name][PrimaryForwardKey(Req(1))])
      = ToLowerCase(Req(1).contractAddress)

\* Both calls read the record before either write was mined, and both sent
\* a forward write.
C39_Witness ==
  /\ \A p \in Procs :
       /\ Req(p).op = "nameContract" /\ pc[p] = "done"
       /\ result[p].transactions.forwardResolution # 0
  /\ Req(1).name = Req(2).name /\ Req(1).contractAddress = Req(2).contractAddress

====
